---------------------------- MODULE Spec2Model ----------------------------
(***************************************************************************)
(* County scoring dashboard (src/app.py): the scorer                       *)
(* (calculate_county_score, assign_grade), the loader with its fallback    *)
(* sample, the upload step and the filter/rank step of one Streamlit page  *)
(* run.  Spec is one run of the page script, from load_data to the main     *)
(* content; SpecScore applies the scorer to single records; SpecChat is a  *)
(* session: runs of the whole script, chat included, one after another.    *)
(*                                                                         *)
(* Numbers are fixed point, so that the arithmetic of the code is exact:   *)
(*   Sold Comps (6m), For Sale Comps (All), Sold Comps (All): counts       *)
(*   Days on Market: days                                                  *)
(*   Sold-Listed Ratio (6m): hundredths (157 is 1.57)                      *)
(*   Out of State / Out of County to Total Ratio: thousandths (298 is      *)
(*     0.298)                                                              *)
(*   MoM Price Change %, Population Change %: tenths of a percent          *)
(*   Population-Sq Mile: tenths (1251 is 125.1)                            *)
(*   a subscore: thousandths of a point (100000 is 100.0)                  *)
(*   a score: 1/20000 of a point (the weights are multiples of 0.05, so a  *)
(*     weight is a number of twentieths), 2000000 is 100.0                 *)
(* Two quantities are rounded down to a thousandth of a point: the log10   *)
(* term of the sales subscore and the quotient For Sale / Sold.            *)
(***************************************************************************)
EXTENDS Integers, Sequences, FiniteSets, TLC

VARIABLES
    \* the scorer applied to one record
    row,            \* the record calculate_county_score is applied to
    score,          \* its score, or NoScore before scoring
    grade,          \* its grade, or None before grading
    prev_row,       \* the record before the last change of one field
    prev_score,     \* and its score
    last_change,    \* which field the last change raised
    nchanges,       \* how many fields of the base record were set
    spc,            \* position: "input", "scored", "graded"
    \* one run of the page script
    pc,             \* position in the script
    source_ok,      \* whether Combined_PRYCD_Research_Final.xlsx can be read
    source,         \* the table the file holds
    df,             \* the primary table
    selected_states, \* the state multiselect
    grade_filter,   \* the grade multiselect
    min_comps,      \* the minimum sold comps slider
    uploaded_file,  \* the file uploader: "none", "unreadable" or "table"
    user_df,        \* the table an uploaded file holds
    user_analysis,  \* the upload merged with the primary table
    sidebar,        \* the upload messages shown in the sidebar
    filtered_defined, \* 'filtered_df' in locals()
    filtered_df,    \* the index labels of the filtered view's rows, in order
    main_view,      \* what the main area shows: "none", "content", "warning"
    error,          \* the exception that ended the run, or None
    \* the chat of the page, over the runs of one session
    messages,       \* st.session_state.messages; <<>> while the key is absent
    prompt          \* what st.chat_input returned in this run: <<>> for
                    \* None, <<p>> for the prompt p

scoreVars == <<row, score, grade, prev_row, prev_score, last_change, nchanges, spc>>

pageVars ==
    <<pc, source_ok, source, df, selected_states, grade_filter, min_comps,
      uploaded_file, user_df, user_analysis, sidebar, filtered_defined,
      filtered_df, main_view, error>>

chatVars == <<messages, prompt>>

vars == <<scoreVars, pageVars, chatVars>>

\* how many rows the primary table may hold
MaxRows == 2

\* how many fields of a base record the scorer's input may differ in
MaxChanges == 1

None == "None"

\* no score yet (a score is never negative)
NoScore == 0 - 1

\* no record
NoRow == [c \in {} |-> 0]

\* ---------------------------------------------------------------- columns

ColState == "State"
ColCounty == "County"
ColSold6m == "Sold Comps (6m)"
ColDom == "Days on Market"
ColSoldListed == "Sold-Listed Ratio (6m)"
ColOos == "Out of State to Total Ratio"
ColOoc == "Out of County to Total Ratio"
ColPrice == "MoM Price Change %"
ColPopChange == "Population Change % (2020-2023)"
ColDensity == "Population-Sq Mile"
ColForSale == "For Sale Comps (All)"
ColSoldAll == "Sold Comps (All)"

NumericCols ==
    {ColSold6m, ColDom, ColSoldListed, ColOos, ColOoc, ColPrice,
     ColPopChange, ColDensity, ColForSale, ColSoldAll}

AllCols == {ColState, ColCounty} \cup NumericCols

\* ------------------------------------------------------------- arithmetic

Max(a, b) == IF a >= b THEN a ELSE b

Min(a, b) == IF a <= b THEN a ELSE b

Abs(a) == IF a >= 0 THEN a ELSE -a

\* row.get(key, default) of a pandas Series
Get(r, key, default) == IF key \in DOMAIN r THEN r[key] ELSE default

\* one point of a subscore, and one point of a score
Milli == 10 * 100

ScoreScale == 20 * Milli

\* floor(1000 * 100 * log10(v) / log10(1000)) for the sales counts the model
\* uses; the table is math.log10 evaluated at these counts
Log10Table ==
    (1 :> 0) @@ (2 :> 10034) @@ (5 :> 23299) @@ (10 :> 33333) @@
    (45 :> 55107) @@ (89 :> 64979) @@ (100 :> 66666) @@ (208 :> 77268) @@
    (363 :> 85330) @@ (469 :> 89039) @@ (500 :> 89965) @@ (1000 :> 100000) @@
    (1564 :> 106474) @@ (1644 :> 107196) @@ (2181 :> 111288) @@
    (4870 :> 122917)

\* (math.log10(sold_comps) / math.log10(1000)) * 100
LogScaled(sold_comps) == Log10Table[sold_comps]

\* ------------------------------------------------------------- the scorer

\* weights, in twentieths
weights ==
    [sold_comps_6m |-> 6, sold_listed_ratio |-> 4, days_on_market |-> 2,
     for_sale_sold_ratio |-> 2, out_of_state_ratio |-> 1,
     out_of_county_ratio |-> 1, price_change |-> 1, population_change |-> 1,
     population_density |-> 2]

sold_score(r) ==
    LET sold_comps == Max(Get(r, ColSold6m, 0), 1)
    IN  Min(100 * Milli, LogScaled(sold_comps))

sold_listed_score(r) ==
    LET sold_listed == Get(r, ColSoldListed, 0)
    IN  Min(100 * Milli, sold_listed * Milli)

dom_score(r) ==
    LET dom == Get(r, ColDom, 300)
    IN  IF 90 <= dom /\ dom <= 180 THEN 100 * Milli
        ELSE IF dom < 90 THEN 100 * Milli - (90 - dom) * 500
        ELSE Max(0, 100 * Milli - (dom - 180) * 200)

\* the ratio score without its floor
fs_score_unfloored(r) ==
    LET for_sale == Get(r, ColForSale, 1)
        sold_all == Max(Get(r, ColSoldAll, 1), 1)
        fs_ratio_x10 == (for_sale * 10 * Milli) \div sold_all
    IN  100 * Milli - fs_ratio_x10

fs_score(r) ==
    LET for_sale == Get(r, ColForSale, 1)
        sold_all == Max(Get(r, ColSoldAll, 1), 1)
        fs_ratio_x10 == (for_sale * 10 * Milli) \div sold_all
    IN  Max(0, 100 * Milli - fs_ratio_x10)

oos_score(r) == Get(r, ColOos, 0) * 100

ooc_score(r) == Get(r, ColOoc, 0) * 100

price_score(r) ==
    LET price_change == Get(r, ColPrice, 0)
    IN  IF -20 <= price_change /\ price_change <= 50 THEN 100 * Milli
        ELSE Max(0, 100 * Milli - Abs(price_change - 15) * Milli)

pop_score(r) ==
    LET pop_change == Get(r, ColPopChange, 0)
    IN  Max(0, Min(100 * Milli, (pop_change + 50) * Milli))


\* density favoured instead of penalised
density_score_rising(r) ==
    LET pop_density == Get(r, ColDensity, 1000 * 10)
    IN  Min(100 * Milli, pop_density * 10)

density_score(r) ==
    LET pop_density == Get(r, ColDensity, 1000 * 10)
    IN  Max(0, 100 * Milli - pop_density * 10)

\* the weighted sum before the final clamp
weighted_sum(r) ==
      sold_score(r) * weights.sold_comps_6m
    + sold_listed_score(r) * weights.sold_listed_ratio
    + dom_score(r) * weights.days_on_market
    + fs_score(r) * weights.for_sale_sold_ratio
    + oos_score(r) * weights.out_of_state_ratio
    + ooc_score(r) * weights.out_of_county_ratio
    + price_score(r) * weights.price_change
    + pop_score(r) * weights.population_change
    + density_score(r) * weights.population_density


\* the weighted sum returned as it is
calculate_county_score_unclamped(r) == weighted_sum(r)

calculate_county_score(r) == Min(100 * ScoreScale, Max(0, weighted_sum(r)))


\* bands that exclude their lower bound
assign_grade_exclusive(s) ==
    IF s > 80 * ScoreScale THEN "A"
    ELSE IF s > 65 * ScoreScale THEN "B"
    ELSE IF s > 50 * ScoreScale THEN "C"
    ELSE IF s > 35 * ScoreScale THEN "D"
    ELSE "F"

assign_grade(s) ==
    IF s >= 80 * ScoreScale THEN "A"
    ELSE IF s >= 65 * ScoreScale THEN "B"
    ELSE IF s >= 50 * ScoreScale THEN "C"
    ELSE IF s >= 35 * ScoreScale THEN "D"
    ELSE "F"

Grades == {"A", "B", "C", "D", "F"}

\* ------------------------------------------------------------ sample data

Row(state, county, sold6m, dom, sold_listed, oos, ooc, price, pop, density, for_sale, sold_all) ==
    (ColState :> state) @@ (ColCounty :> county) @@ (ColSold6m :> sold6m) @@
    (ColDom :> dom) @@ (ColSoldListed :> sold_listed) @@ (ColOos :> oos) @@
    (ColOoc :> ooc) @@ (ColPrice :> price) @@ (ColPopChange :> pop) @@
    (ColDensity :> density) @@ (ColForSale :> for_sale) @@
    (ColSoldAll :> sold_all)

create_sample_data ==
    << Row("Florida", "Lee County", 4870, 96, 157, 298, 245, -33, 80, 1251, 3905, 2267),
       Row("Florida", "Charlotte County", 2181, 135, 99, 433, 367, -15, 28, 731, 926, 518),
       Row("Florida", "Marion County", 1564, 143, 99, 283, 334, 26, 12, 663, 410, 231),
       Row("Arizona", "Mohave County", 1644, 257, 68, 588, 669, -20, 42, 166, 7382, 4835),
       Row("Arizona", "Apache County", 363, 224, 40, 508, 870, 45, -13, 58, 3047, 991),
       Row("Colorado", "Costilla County", 469, 172, 44, 718, 482, -4, 0, 32, 1069, 469),
       Row("Colorado", "Archuleta County", 208, 224, 165, 526, 484, -4, 29, 110, 126, 208),
       Row("Texas", "Brewster County", 89, 298, 33, 445, 623, 12, 37, 8, 270, 89),
       Row("Texas", "Presidio County", 45, 345, 22, 389, 578, -21, 18, 21, 205, 45) >>

\* ------------------------------------------- the scorer applied to a record

\* r restricted to the columns cols
Restrict(r, cols) == [c \in (DOMAIN r) \cap cols |-> r[c]]

\* r with column col set to v (added when absent)
With(r, col, v) == [c \in (DOMAIN r) \cup {col} |-> IF c = col THEN v ELSE r[c]]

\* records the scorer is tried on: a sample record, a record with no metric
\* at all, records scoring exactly 80 and 50, records whose nine subscores
\* are all 100 and all 0, and records whose weighted sum lies below 0 and
\* above 100
BaseRows ==
    { create_sample_data[1],
      Restrict(create_sample_data[1], {ColState, ColCounty}),
      Row("Florida", "Eighty", 1000, 100, 100, 0, 0, 0, 50, 10000, 0, 1),
      Row("Florida", "Fifty", 1, 100, 100, 0, 0, 0, 50, 10000, 0, 1),
      Row("Florida", "Full", 1000, 100, 100, 1000, 1000, 0, 50, 0, 0, 1),
      Row("Texas", "Nil", 0, 700, 0, 0, 0, 300, -100, 20000, 7382, 1),
      Row("Texas", "Low", 0, -200, -125, -1000, -1000, 300, -100, 20000, 7382, 1),
      Row("Texas", "High", 4870, 100, 157, 3000, 3000, 0, 80, 0, -100, 1) }

FieldValues ==
    (ColSold6m :> {-5, 0, 1, 10, 1000, 4870}) @@
    (ColDom :> {-200, 0, 89, 90, 180, 181, 700}) @@
    (ColSoldListed :> {-125, 0, 25, 100, 157}) @@
    (ColOos :> {-1000, 0, 1, 298, 1000, 3000}) @@
    (ColOoc :> {0, 500, 1000}) @@
    (ColPrice :> {-300, -21, -20, 0, 50, 51, 300}) @@
    (ColPopChange :> {-100, -50, 0, 50, 80}) @@
    (ColDensity :> {0, 1251, 10000, 10001, 20000}) @@
    (ColForSale :> {-100, 0, 1, 7382}) @@
    (ColSoldAll :> {-3, 0, 1, 2, 4835})

\* ------------------------------------------------------------------ tables

\* a DataFrame: its columns and its rows, a row's index label its position
Table(cols, rows) == [cols |-> cols, rows |-> rows]

EmptyTable == Table({}, <<>>)

\* DataFrame.empty
Empty(t) == t.cols = {} \/ Len(t.rows) = 0

\* an empty cell
NaN == 0 - 1000000000

ColScore == "Score"
ColGrade == "Grade"

\* header names as a file may write them, with the name str.strip() gives
PaddedNames == (" State " :> ColState) @@ ("Sold Comps (6m) " :> ColSold6m)

strip(name) == IF name \in DOMAIN PaddedNames THEN PaddedNames[name] ELSE name

RenameRow(r, cols) ==
    [c \in cols |-> r[CHOOSE raw \in DOMAIN r : strip(raw) = c]]

\* df.columns = df.columns.str.strip()
StripCols(t) ==
    LET cols == {strip(c) : c \in t.cols}
    IN  Table(cols, [i \in 1..Len(t.rows) |-> RenameRow(t.rows[i], cols)])

\* df[numeric_columns] = df[numeric_columns].fillna(0)
FillNa(t) ==
    Table(t.cols,
          [i \in 1..Len(t.rows) |->
              [c \in t.cols |->
                  IF c \in NumericCols /\ t.rows[i][c] = NaN
                  THEN 0 ELSE t.rows[i][c]]])


\* a failed read gives an empty table instead of the sample
load_data_no_fallback(ok, src) ==
    IF ok THEN FillNa(StripCols(src)) ELSE EmptyTable

load_data(ok, src) ==
    IF ok THEN FillNa(StripCols(src)) ELSE Table(AllCols, create_sample_data)

\* df['Score'] = df.apply(calculate_county_score, axis=1)
\* df['Grade'] = df['Score'].apply(assign_grade), when df is not empty
ScoreTable(t) ==
    IF Empty(t) THEN t
    ELSE Table(t.cols \cup {ColScore, ColGrade},
               [i \in 1..Len(t.rows) |->
                   LET s == calculate_county_score(t.rows[i])
                   IN  With(With(t.rows[i], ColScore, s), ColGrade, assign_grade(s))])

\* ------------------------------------------------------------ the inputs

SourceRows ==
    { Row("Florida", "Eighty", 1000, 100, 100, 0, 0, 0, 50, 10000, 0, 1),
      Row("Texas", "Eighty Twin", 1000, 100, 100, 0, 0, 0, 50, 10000, 0, 1),
      create_sample_data[9],
      Row("Florida", "Sparse", 5, NaN, 0, 0, 0, 0, 0, NaN, 1, 1) }

\* the column sets a source file may have
Headers ==
    { AllCols,
      AllCols \ {ColSold6m},
      AllCols \ {ColState},
      {ColState, ColCounty, ColSold6m} }

RowSeqs == UNION {[1..n -> SourceRows] : n \in 0..MaxRows}

\* the table with two of its header names padded with blanks
Pad(t) ==
    LET raw(c) == IF c = ColState THEN " State "
                  ELSE IF c = ColSold6m THEN "Sold Comps (6m) " ELSE c
    IN  Table({raw(c) : c \in t.cols},
              [i \in 1..Len(t.rows) |->
                  [c2 \in {raw(c) : c \in t.cols} |->
                      t.rows[i][strip(c2)]]])

SourceTables ==
    LET plain == {Table(h, [i \in 1..Len(rs) |-> Restrict(rs[i], h)]) :
                    h \in Headers, rs \in RowSeqs}
    IN  plain \cup {Pad(t) : t \in {u \in plain : u.cols = AllCols}}

GradeFilterChoices ==
    { {}, {"A", "B", "C"}, Grades, {"C", "D", "F"} }

MinCompsChoices == {0, 10, 1000}

UserTables ==
    { Table({ColState, ColCounty},
            << (ColState :> "Florida") @@ (ColCounty :> "Eighty"),
               (ColState :> "Nevada") @@ (ColCounty :> "Nye County") >>),
      Table({"Parcel"}, << ("Parcel" :> "P-1") >>) }

UploadChoices ==
    { [kind |-> "none", table |-> EmptyTable],
      [kind |-> "unreadable", table |-> EmptyTable] }
    \cup { [kind |-> "table", table |-> t] : t \in UserTables }

\* ------------------------------------------------------------ the sidebar

\* the state names of the tables above
StateNames == {"Florida", "Arizona", "Colorado", "Texas"}

\* sorted(df['State'].unique()) if not df.empty else the three default names
available_states(t) ==
    IF ~Empty(t) THEN {t.rows[i][ColState] : i \in 1..Len(t.rows)}
    ELSE {"Florida", "Arizona", "Colorado"}

\* ------------------------------------------------------------- the upload

\* whether pd.merge(user_df, df, on=['State', 'County'], how='left') raises
MergeRaises(user, d) == ~({ColState, ColCounty} \subseteq d.cols)

\* the rows of d matching u on State and County, in order
RECURSIVE Matches(_, _, _)
Matches(u, d, i) ==
    IF i > Len(d.rows) THEN <<>>
    ELSE LET r == d.rows[i]
             rest == Matches(u, d, i + 1)
         IN  IF r[ColState] = u[ColState] /\ r[ColCounty] = u[ColCounty]
             THEN <<u @@ r>> \o rest ELSE rest

\* pd.merge(user_df, df, on=['State', 'County'], how='left')
RECURSIVE merge(_, _, _)
merge(user, d, i) ==
    IF i > Len(user.rows) THEN <<>>
    ELSE LET u == user.rows[i]
             m == Matches(u, d, 1)
             nulls == [c \in d.cols \ DOMAIN u |-> NaN]
         IN  (IF m = <<>> THEN <<u @@ nulls>> ELSE m) \o merge(user, d, i + 1)


\* the upload step without its except clause
upload_result_uncaught(f, d) ==
    IF f.kind = "none"
    THEN [sidebar |-> {}, user_analysis |-> <<>>, error |-> None]
    ELSE IF f.kind = "unreadable"
    THEN [sidebar |-> {}, user_analysis |-> <<>>, error |-> "Exception@upload"]
    ELSE IF ~({ColState, ColCounty} \subseteq f.table.cols)
    THEN [sidebar |-> {"success"}, user_analysis |-> <<>>, error |-> None]
    ELSE IF MergeRaises(f.table, d)
    THEN [sidebar |-> {"success"}, user_analysis |-> <<>>,
          error |-> "Exception@upload"]
    ELSE LET ua == merge(f.table, d, 1)
         IN  [sidebar |-> IF ua # <<>> THEN {"success", "info"} ELSE {"success"},
              user_analysis |-> ua, error |-> None]

\* lines 267-283: what the upload step shows, binds and raises
upload_result(f, d) ==
    IF f.kind = "none"
    THEN [sidebar |-> {}, user_analysis |-> <<>>, error |-> None]
    ELSE IF f.kind = "unreadable"
    THEN [sidebar |-> {"error"}, user_analysis |-> <<>>, error |-> None]
    ELSE IF ~({ColState, ColCounty} \subseteq f.table.cols)
    THEN [sidebar |-> {"success"}, user_analysis |-> <<>>, error |-> None]
    ELSE IF MergeRaises(f.table, d)
    THEN [sidebar |-> {"success", "error"}, user_analysis |-> <<>>, error |-> None]
    ELSE LET ua == merge(f.table, d, 1)
         IN  [sidebar |-> IF ua # <<>> THEN {"success", "info"} ELSE {"success"},
              user_analysis |-> ua, error |-> None]

\* -------------------------------------------------------- filter and rank


\* the mask with a strict comparison of the sales count
mask_strict(d, states, grades, minc) ==
    {i \in 1..Len(d.rows) :
        /\ d.rows[i][ColState] \in states
        /\ d.rows[i][ColGrade] \in grades
        /\ d.rows[i][ColSold6m] > minc}

\* the boolean mask of lines 287-291, as the index labels it selects
mask(d, states, grades, minc) ==
    {i \in 1..Len(d.rows) :
        /\ d.rows[i][ColState] \in states
        /\ d.rows[i][ColGrade] \in grades
        /\ d.rows[i][ColSold6m] >= minc}


\* the sort with ascending left at its default
RECURSIVE sort_values_ascending(_, _)
sort_values_ascending(d, idxs) ==
    IF idxs = {} THEN {<<>>}
    ELSE LET low == {i \in idxs : \A j \in idxs :
                        d.rows[i][ColScore] <= d.rows[j][ColScore]}
         IN  UNION {{<<i>> \o s : s \in sort_values_ascending(d, idxs \ {i})} :
                        i \in low}

\* sort_values('Score', ascending=False): kind defaults to quicksort, which
\* is not stable, so rows of equal score come out in any order. The result
\* starts with a row of the highest score and goes on with the others, sorted
RECURSIVE sort_values(_, _)
sort_values(d, idxs) ==
    IF idxs = {} THEN {<<>>}
    ELSE LET top == {i \in idxs : \A j \in idxs :
                        d.rows[i][ColScore] >= d.rows[j][ColScore]}
         IN  UNION {{<<i>> \o s : s \in sort_values(d, idxs \ {i})} : i \in top}

\* the columns the overview, the cards and the table read (lines 297-443)
RenderCols ==
    {ColCounty, ColState, ColScore, ColGrade, ColSold6m, ColDom, ColOos,
     ColPrice, ColPopChange}

\* ------------------------------------------------------------ the page run

PageIdle ==
    /\ pc = "idle"
    /\ source_ok = FALSE
    /\ source = EmptyTable
    /\ df = EmptyTable
    /\ selected_states = {}
    /\ grade_filter = {}
    /\ min_comps = 0
    /\ uploaded_file = "none"
    /\ user_df = EmptyTable
    /\ user_analysis = <<>>
    /\ sidebar = {}
    /\ filtered_defined = FALSE
    /\ filtered_df = <<>>
    /\ main_view = "none"
    /\ error = None

ScoreIdle ==
    /\ row = NoRow
    /\ score = NoScore
    /\ grade = None
    /\ prev_row = NoRow
    /\ prev_score = NoScore
    /\ last_change = None
    /\ nchanges = 0
    /\ spc = "idle"

\* no chat yet: the session state has no "messages" key
ChatIdle ==
    /\ messages = <<>>
    /\ prompt = <<>>

Init ==
    /\ ScoreIdle
    /\ ChatIdle
    /\ pc = "start"
    /\ source_ok \in BOOLEAN
    /\ source \in (IF source_ok THEN SourceTables ELSE {EmptyTable})
    /\ df = EmptyTable
    /\ selected_states = {}
    /\ grade_filter = {}
    /\ min_comps = 0
    /\ uploaded_file = "none"
    /\ user_df = EmptyTable
    /\ user_analysis = <<>>
    /\ sidebar = {}
    /\ filtered_defined = FALSE
    /\ filtered_df = <<>>
    /\ main_view = "none"
    /\ error = None

\* line 223: df = load_data()
LoadData ==
    /\ pc = "start"
    /\ df' = load_data(source_ok, source)
    /\ pc' = "loaded"
    /\ UNCHANGED <<source_ok, source, selected_states, grade_filter, min_comps,
                   uploaded_file, user_df, user_analysis, sidebar,
                   filtered_defined, filtered_df, main_view, error>>
    /\ UNCHANGED scoreVars
    /\ UNCHANGED chatVars

\* lines 226-228: score and grade every row
ScoreData ==
    /\ pc = "loaded"
    /\ df' = ScoreTable(df)
    /\ pc' = "scored"
    /\ UNCHANGED <<source_ok, source, selected_states, grade_filter, min_comps,
                   uploaded_file, user_df, user_analysis, sidebar,
                   filtered_defined, filtered_df, main_view, error>>
    /\ UNCHANGED scoreVars
    /\ UNCHANGED chatVars

\* lines 235-256: the three filter widgets, with the values the user gave them
ReadWidgets(states, grades, minc) ==
    /\ pc = "scored"
    /\ Empty(df) \/ ColState \in df.cols
    /\ states \subseteq available_states(df)
    /\ selected_states' = states
    /\ grade_filter' = grades
    /\ min_comps' = minc
    /\ pc' = "widgets"
    /\ UNCHANGED <<source_ok, source, df, uploaded_file, user_df, user_analysis,
                   sidebar, filtered_defined, filtered_df, main_view, error>>
    /\ UNCHANGED scoreVars
    /\ UNCHANGED chatVars

\* line 235: df['State'] of a table that has rows and no State column
SidebarKeyError ==
    /\ pc = "scored"
    /\ ~Empty(df)
    /\ ColState \notin df.cols
    /\ error' = "KeyError@sidebar"
    /\ pc' = "error"
    /\ UNCHANGED <<source_ok, source, df, selected_states, grade_filter,
                   min_comps, uploaded_file, user_df, user_analysis, sidebar,
                   filtered_defined, filtered_df, main_view>>
    /\ UNCHANGED scoreVars
    /\ UNCHANGED chatVars

\* lines 261-283: the uploader and what is done with the file
ProcessUpload(f) ==
    /\ pc = "widgets"
    /\ uploaded_file' = f.kind
    /\ user_df' = f.table
    /\ LET res == upload_result(f, df)
       IN  /\ sidebar' = res.sidebar
           /\ user_analysis' = res.user_analysis
           /\ error' = res.error
           /\ pc' = IF res.error = None THEN "uploaded" ELSE "error"
    /\ UNCHANGED <<source_ok, source, df, selected_states, grade_filter,
                   min_comps, filtered_defined, filtered_df, main_view>>
    /\ UNCHANGED scoreVars
    /\ UNCHANGED chatVars

\* lines 286-294 when the guard of line 286 holds: mask, copy, sort
FilterData ==
    /\ pc = "uploaded"
    /\ ~Empty(df) /\ selected_states # {}
    /\ ColSold6m \in df.cols
    /\ filtered_df' \in
           sort_values(df, mask(df, selected_states, grade_filter, min_comps))
    /\ filtered_defined' = TRUE
    /\ pc' = "filtered"
    /\ UNCHANGED <<source_ok, source, df, selected_states, grade_filter,
                   min_comps, uploaded_file, user_df, user_analysis, sidebar,
                   main_view, error>>
    /\ UNCHANGED scoreVars
    /\ UNCHANGED chatVars

\* line 290: df['Sold Comps (6m)'] of a table without that column
FilterKeyError ==
    /\ pc = "uploaded"
    /\ ~Empty(df) /\ selected_states # {}
    /\ ColSold6m \notin df.cols
    /\ error' = "KeyError@filter"
    /\ pc' = "error"
    /\ UNCHANGED <<source_ok, source, df, selected_states, grade_filter,
                   min_comps, uploaded_file, user_df, user_analysis, sidebar,
                   filtered_defined, filtered_df, main_view>>
    /\ UNCHANGED scoreVars
    /\ UNCHANGED chatVars

\* line 286 when its guard fails: the block is skipped, filtered_df is never
\* bound
SkipFilter ==
    /\ pc = "uploaded"
    /\ Empty(df) \/ selected_states = {}
    /\ pc' = "filtered"
    /\ UNCHANGED <<source_ok, source, df, selected_states, grade_filter,
                   min_comps, uploaded_file, user_df, user_analysis, sidebar,
                   filtered_defined, filtered_df, main_view, error>>
    /\ UNCHANGED scoreVars
    /\ UNCHANGED chatVars

\* lines 297-446: the main content, or the warning, inside the block of
\* line 286
Render ==
    /\ pc = "filtered"
    /\ filtered_defined => (filtered_df = <<>> \/ RenderCols \subseteq df.cols)
    /\ main_view' = IF ~filtered_defined THEN "none"
                    ELSE IF filtered_df # <<>> THEN "content" ELSE "warning"
    /\ pc' = "done"
    /\ UNCHANGED <<source_ok, source, df, selected_states, grade_filter,
                   min_comps, uploaded_file, user_df, user_analysis, sidebar,
                   filtered_defined, filtered_df, error>>
    /\ UNCHANGED scoreVars
    /\ UNCHANGED chatVars

\* lines 319-377: a column the overview or the cards read is missing
RenderKeyError ==
    /\ pc = "filtered"
    /\ filtered_defined
    /\ filtered_df # <<>>
    /\ ~(RenderCols \subseteq df.cols)
    /\ error' = "KeyError@render"
    /\ pc' = "error"
    /\ UNCHANGED <<source_ok, source, df, selected_states, grade_filter,
                   min_comps, uploaded_file, user_df, user_analysis, sidebar,
                   filtered_defined, filtered_df, main_view>>
    /\ UNCHANGED scoreVars
    /\ UNCHANGED chatVars

Next ==
    \/ LoadData
    \/ ScoreData
    \/ \E states \in SUBSET StateNames :
           \E grades \in GradeFilterChoices : \E minc \in MinCompsChoices :
               ReadWidgets(states, grades, minc)
    \/ SidebarKeyError
    \/ \E f \in UploadChoices : ProcessUpload(f)
    \/ FilterData
    \/ FilterKeyError
    \/ SkipFilter
    \/ Render
    \/ RenderKeyError

Spec == Init /\ [][Next]_vars

\* ------------------------------------------------------- the filtered view

\* the index labels of the rows of df that satisfy the criteria
Matching ==
    {i \in 1..Len(df.rows) :
        /\ df.rows[i][ColState] \in selected_states
        /\ df.rows[i][ColGrade] \in grade_filter
        /\ df.rows[i][ColSold6m] >= min_comps}

ViewLabels == {filtered_df[k] : k \in 1..Len(filtered_df)}

ViewScore(k) == df.rows[filtered_df[k]][ColScore]

\* C3: the filtered view holds exactly the rows of the table whose state is
\* selected, whose grade is allowed and whose Sold Comps (6m) is at least the
\* minimum: none missing, none extra, none twice. A run that binds no view
\* shows no row, and is held to the same: no row may match then.
C3_FilterExact ==
    pc \in {"filtered", "done"} =>
        /\ ViewLabels = Matching
        /\ Len(filtered_df) = Cardinality(Matching)

\* a view that keeps one row of the table and leaves another out
C3_Witness ==
    /\ filtered_defined
    /\ Len(filtered_df) >= 1
    /\ Len(filtered_df) < Len(df.rows)

\* C4 as claimed: the view is in descending order of score and rows of equal
\* score keep the order they have in the table.
C4_SortedStable ==
    filtered_defined =>
        /\ \A k \in 1..(Len(filtered_df) - 1) : ViewScore(k) >= ViewScore(k + 1)
        /\ \A k, m \in 1..Len(filtered_df) :
               (k < m /\ ViewScore(k) = ViewScore(m))
                   => filtered_df[k] < filtered_df[m]

\* C4 as amended: the view is in descending order of score; the order of rows
\* of equal score is not fixed.
C4_SortedDescending ==
    filtered_defined =>
        \A k \in 1..(Len(filtered_df) - 1) : ViewScore(k) >= ViewScore(k + 1)

\* a view of two rows of different scores that the sort put in the other order
C4_Witness ==
    /\ filtered_defined
    /\ Len(filtered_df) = 2
    /\ ViewScore(1) > ViewScore(2)
    /\ filtered_df[1] > filtered_df[2]

\* C5 as claimed: with no state selected or no grade allowed, the filter step
\* leaves a defined, empty view.
C5_EmptyCriteriaEmptyView ==
    (pc \in {"filtered", "done"} /\ (selected_states = {} \/ grade_filter = {}))
        => (filtered_defined /\ filtered_df = <<>>)

\* C6 as claimed: a run shows the warning exactly when no row matches the
\* criteria.
C6_WarningIffNoMatch ==
    pc = "done" => (main_view = "warning" <=> Matching = {})

\* C7 as claimed: the filter step raises nothing, whatever columns the table
\* has, and always produces its result.
C7_FilterTotal ==
    /\ error # "KeyError@filter"
    /\ (pc \in {"filtered", "done"} /\ ~Empty(df) /\ selected_states # {})
           => filtered_defined

\* C9: when the source cannot be read, the run goes on with the fallback
\* table of 9 rows in 4 states, scored and graded like any other table.
C9_Fallback ==
    (~source_ok /\ pc # "start") =>
        /\ error = None
        /\ Len(df.rows) = 9
        /\ Cardinality({df.rows[i][ColState] : i \in 1..Len(df.rows)}) = 4
        /\ \A i \in 1..Len(df.rows) :
               Restrict(df.rows[i], AllCols) = create_sample_data[i]
        /\ pc # "loaded" =>
               \A i \in 1..Len(df.rows) :
                   /\ df.rows[i][ColScore] =
                          calculate_county_score(create_sample_data[i])
                   /\ df.rows[i][ColGrade] = assign_grade(df.rows[i][ColScore])

\* a run on the fallback table that showed its counties
C9_Witness ==
    /\ ~source_ok
    /\ pc = "done"
    /\ main_view = "content"

\* C10: the upload step leaves the primary table, its scores and grades as
\* load and scoring made them, and binds no filtered view; an unreadable file
\* is reported in the sidebar and raises nothing.
C10_UploadFrame ==
    /\ pc \in {"uploaded", "filtered", "done"} =>
           df = ScoreTable(load_data(source_ok, source))
    /\ pc = "uploaded" => (~filtered_defined /\ filtered_df = <<>>)
    /\ uploaded_file = "unreadable" =>
           (pc \in {"uploaded", "filtered", "done", "error"} /\ "error" \in sidebar)
    /\ error \in {None, "KeyError@sidebar", "KeyError@filter", "KeyError@render"}

\* a run that went on to show its counties after an unreadable upload
C10_Witness ==
    /\ uploaded_file = "unreadable"
    /\ "error" \in sidebar
    /\ pc = "done"
    /\ main_view = "content"

InitScore ==
    /\ row \in BaseRows
    /\ score = NoScore
    /\ grade = None
    /\ prev_row = NoRow
    /\ prev_score = NoScore
    /\ last_change = None
    /\ nchanges = 0
    /\ spc = "input"
    /\ PageIdle
    /\ ChatIdle

\* the record has another value in one column
SetField(col, v) ==
    /\ spc = "input"
    /\ nchanges < MaxChanges
    /\ row' = With(row, col, v)
    /\ nchanges' = nchanges + 1
    /\ UNCHANGED <<score, grade, prev_row, prev_score, last_change, spc>>
    /\ UNCHANGED pageVars
    /\ UNCHANGED chatVars

\* the record lacks one column
DropField(col) ==
    /\ spc = "input"
    /\ nchanges < MaxChanges
    /\ col \in DOMAIN row
    /\ row' = Restrict(row, (DOMAIN row) \ {col})
    /\ nchanges' = nchanges + 1
    /\ UNCHANGED <<score, grade, prev_row, prev_score, last_change, spc>>
    /\ UNCHANGED pageVars
    /\ UNCHANGED chatVars

\* df['Score'] = df.apply(calculate_county_score, axis=1), for one record
ScoreRow ==
    /\ spc = "input"
    /\ score' = calculate_county_score(row)
    /\ spc' = "scored"
    /\ UNCHANGED <<row, grade, prev_row, prev_score, last_change, nchanges>>
    /\ UNCHANGED pageVars
    /\ UNCHANGED chatVars

\* df['Grade'] = df['Score'].apply(assign_grade), for one record
GradeScore ==
    /\ spc = "scored"
    /\ grade' = assign_grade(score)
    /\ spc' = "graded"
    /\ UNCHANGED <<row, score, prev_row, prev_score, last_change, nchanges>>
    /\ UNCHANGED pageVars
    /\ UNCHANGED chatVars

\* one metric of the record is raised, all others fixed, and the record is
\* scored and graded again
RaiseField(col, v) ==
    /\ spc = "graded"
    /\ last_change = None
    /\ col \in DOMAIN row
    /\ v > row[col]
    /\ prev_row' = row
    /\ prev_score' = score
    /\ row' = With(row, col, v)
    /\ score' = calculate_county_score(row')
    /\ grade' = assign_grade(score')
    /\ last_change' = col
    /\ UNCHANGED <<nchanges, spc>>
    /\ UNCHANGED pageVars
    /\ UNCHANGED chatVars

NextScore ==
    \/ \E col \in NumericCols : \E v \in FieldValues[col] : SetField(col, v)
    \/ \E col \in NumericCols : DropField(col)
    \/ ScoreRow
    \/ GradeScore
    \/ \E col \in NumericCols : \E v \in FieldValues[col] : RaiseField(col, v)

SpecScore == InitScore /\ [][NextScore]_vars

\* C1: every record's score lies in [0, 100], whatever fields it has and
\* whatever their values.
C1_ScoreInRange ==
    spc # "input" => (0 <= score /\ score <= 100 * ScoreScale)

\* a record whose weighted sum exceeds 100 has been scored
C1_Witness ==
    /\ spc = "scored"
    /\ weighted_sum(row) > 100 * ScoreScale
    /\ score = 100 * ScoreScale

\* C2: the grade is the lower-inclusive band of the score: A from 80, B from
\* 65 below 80, C from 50 below 65, D from 35 below 50, F below 35.
C2_GradeBands ==
    grade # None =>
        /\ grade \in Grades
        /\ grade = "A" <=> score >= 80 * ScoreScale
        /\ grade = "B" <=> (65 * ScoreScale <= score /\ score < 80 * ScoreScale)
        /\ grade = "C" <=> (50 * ScoreScale <= score /\ score < 65 * ScoreScale)
        /\ grade = "D" <=> (35 * ScoreScale <= score /\ score < 50 * ScoreScale)
        /\ grade = "F" <=> score < 35 * ScoreScale

\* a score exactly on the threshold 65 has been graded B
C2_Witness ==
    /\ spc = "graded"
    /\ score = 65 * ScoreScale
    /\ grade = "B"

\* C8: with all other fields fixed, raising Sold Comps (6m) never lowers the
\* score, raising Population-Sq Mile never raises it, and raising Out of
\* State to Total Ratio never lowers it.
C8_Monotone ==
    /\ last_change = ColSold6m => score >= prev_score
    /\ last_change = ColDensity => score <= prev_score
    /\ last_change = ColOos => score >= prev_score

\* the density of a record was raised and its score fell
C8_Witness ==
    /\ last_change = ColDensity
    /\ score < prev_score

\* the fields of a record satisfy the data model: counts, days on market
\* and density are non-negative, the sold/listed ratio is non-negative, the
\* out-of-state and out-of-county ratios lie in [0, 1]
DataModel(r) ==
    /\ \A c \in {ColSold6m, ColForSale, ColSoldAll, ColDom, ColDensity, ColSoldListed} :
           c \in DOMAIN r => r[c] >= 0
    /\ \A c \in {ColOos, ColOoc} :
           c \in DOMAIN r => (0 <= r[c] /\ r[c] <= Milli)

\* the nine subscores of a record
Subscores(r) ==
    << sold_score(r), sold_listed_score(r), dom_score(r), fs_score(r),
       oos_score(r), ooc_score(r), price_score(r), pop_score(r),
       density_score(r) >>

\* the nine weights added up, in twentieths
WeightTotal ==
      weights.sold_comps_6m + weights.sold_listed_ratio
    + weights.days_on_market + weights.for_sale_sold_ratio
    + weights.out_of_state_ratio + weights.out_of_county_ratio
    + weights.price_change + weights.population_change
    + weights.population_density

\* C11: for a record satisfying the data model each of the nine subscores
\* lies in [0, 100] and the nine weights sum to 1, so the weighted sum lies
\* in [0, 100] and the final clamp returns it unchanged.
C11_ClampRedundant ==
    (spc # "input" /\ DataModel(row)) =>
        /\ \A i \in 1..9 :
               0 <= Subscores(row)[i] /\ Subscores(row)[i] <= 100 * Milli
        /\ WeightTotal * Milli = ScoreScale
        /\ 0 <= weighted_sum(row) /\ weighted_sum(row) <= 100 * ScoreScale
        /\ score = weighted_sum(row)

\* a record of the data model whose nine subscores are all 100 was scored:
\* the weighted sum reaches the upper end of the range without passing it
C11_Witness ==
    /\ spc = "scored"
    /\ DataModel(row)
    /\ \A i \in 1..9 : Subscores(row)[i] = 100 * Milli
    /\ score = 100 * ScoreScale

\* ------------------------------------------------------------------ chat

\* how many prompts a session may submit
MaxPrompts == 2

Message(role, content) == [role |-> role, content |-> content]

\* what generate_ai_response returns: the text, the county and state the
\* text names (<<>> when it names none), and the exception raised instead
Response(text, county, raises) ==
    [text |-> text, county |-> county, raises |-> raises]

\* lines 467-469: the message the history is created with
Greeting == Message("assistant", Response("greeting", <<>>, None))

\* a prompt is the set of the keywords of lines 498-605 it contains
Prompts == {{"recommend"}, {}}

\* the rows of a DataFrame, in order: those of filtered_df, or those of df
Rows(d, idxs) == [k \in 1..Len(idxs) |-> d.rows[idxs[k]]]

\* line 487: filtered_df if 'filtered_df' in locals() else df
chat_data ==
    IF filtered_defined THEN Rows(df, filtered_df)
    ELSE IF Empty(df) THEN <<>> ELSE df.rows

\* the columns the recommendation of lines 582-587 reads
RecommendCols ==
    {ColCounty, ColState, ColScore, ColGrade, ColSold6m, ColDom, ColOos}

\* lines 493-654, the branches in the order of the elif chain
generate_ai_response(p, data) ==
    IF p \cap {"grade", "score", "rating"} # {}
        THEN Response("grading", <<>>, None)
    ELSE IF p \cap {"days on market", "dom", "how long"} # {}
        THEN Response("days on market", <<>>, None)
    ELSE IF p \cap {"out of state", "absentee", "owner"} # {}
        THEN Response("ownership", <<>>, None)
    ELSE IF p \cap {"marketing", "strategy", "how to"} # {}
        THEN Response("marketing", <<>>, None)
    ELSE IF p \cap {"best county", "top county", "recommend"} # {}
        THEN IF data # <<>>
             THEN LET top_county == data[1]
                  IN  IF RecommendCols \subseteq DOMAIN top_county
                      THEN Response("recommend",
                                    <<top_county[ColCounty], top_county[ColState]>>,
                                    None)
                      ELSE Response("", <<>>, "KeyError")
             ELSE Response("select some states", <<>>, None)
    ELSE IF p \cap {"beginner", "new", "start", "first time"} # {}
        THEN Response("beginner", <<>>, None)
    ELSE Response("general", <<>>, None)

\* the functions whose def statement the script has executed when it reaches
\* the chat input of line 477; a run starts with a fresh namespace, and
\* def generate_ai_response is at line 493, after the call of line 487
DefinedAtChatInput ==
    {"load_data", "create_sample_data", "calculate_county_score",
     "assign_grade", "get_grade_color_class"}

\* lines 466-469: the history is created on the first run that gets here
history == IF messages = <<>> THEN <<Greeting>> ELSE messages

\* how many prompts the history holds
Submitted == Cardinality({i \in 1..Len(messages) : messages[i].role = "user"})

\* lines 465-477 and the rest of the script: no prompt was submitted
NoPrompt ==
    /\ pc = "done"
    /\ messages' = history
    /\ prompt' = <<>>
    /\ pc' = "end"
    /\ UNCHANGED <<source_ok, source, df, selected_states, grade_filter,
                   min_comps, uploaded_file, user_df, user_analysis, sidebar,
                   filtered_defined, filtered_df, main_view, error>>
    /\ UNCHANGED scoreVars

\* lines 465-491: a prompt was submitted
SubmitPrompt(p) ==
    /\ pc = "done"
    /\ Submitted < MaxPrompts
    /\ prompt' = <<p>>
    /\ LET with_user == Append(history, Message("user", p))
       IN  IF "generate_ai_response" \notin DefinedAtChatInput
           THEN /\ messages' = with_user
                /\ error' = "NameError@chat"
                /\ pc' = "error"
           ELSE LET response == generate_ai_response(p, chat_data)
                IN  IF response.raises # None
                    THEN /\ messages' = with_user
                         /\ error' = "KeyError@chat"
                         /\ pc' = "error"
                    ELSE /\ messages' = Append(with_user,
                                               Message("assistant", response))
                         /\ error' = None
                         /\ pc' = "end"
    /\ UNCHANGED <<source_ok, source, df, selected_states, grade_filter,
                   min_comps, uploaded_file, user_df, user_analysis, sidebar,
                   filtered_defined, filtered_df, main_view>>
    /\ UNCHANGED scoreVars

\* the next interaction: the script runs again from its first line, its
\* names unbound, the session state kept
Rerun ==
    /\ pc \in {"end", "error"}
    /\ pc' = "start"
    /\ df' = EmptyTable
    /\ selected_states' = {}
    /\ grade_filter' = {}
    /\ min_comps' = 0
    /\ uploaded_file' = "none"
    /\ user_df' = EmptyTable
    /\ user_analysis' = <<>>
    /\ sidebar' = {}
    /\ filtered_defined' = FALSE
    /\ filtered_df' = <<>>
    /\ main_view' = "none"
    /\ error' = None
    /\ prompt' = <<>>
    /\ UNCHANGED <<source_ok, source, messages>>
    /\ UNCHANGED scoreVars

\* a session: the source file holds less than the most rows, or is missing
InitChat ==
    /\ Init
    /\ source_ok => Len(source.rows) < MaxRows

NextChat ==
    \/ Next
    \/ NoPrompt
    \/ \E p \in Prompts : SubmitPrompt(p)
    \/ Rerun

SpecChat == InitChat /\ [][NextChat]_vars

\* the run got a prompt that reaches the recommendation branch
RecommendationAsked ==
    /\ pc \in {"end", "error"}
    /\ prompt # <<>>
    /\ generate_ai_response(prompt[1], <<>>).text = "select some states"

C13_HistoryPaired ==
    /\ messages # <<>> =>
           (messages[1].role = "assistant" /\ messages[1] = Greeting)
    /\ \A i \in 1..Len(messages) :
           messages[i].role = "user" =>
               (i < Len(messages) /\ messages[i + 1].role = "assistant")

=============================================================================
